---- MODULE Spec2Model ----
(***************************************************************************)
(* Model of the semantic memory subsystem (backend/memory_system.py):      *)
(* SemanticMemory with its entry list, its FAISS inner-product index, the  *)
(* two on-disk artifacts (memories.json, faiss_index.bin) and the clock    *)
(* read by datetime.now().                                                 *)
(*                                                                         *)
(* Vectors are two-dimensional with integer coordinates.  A unit vector is *)
(* held in fixed point with scale 5 (<<3, 4>> is (0.6, 0.8)), so           *)
(* normalisation and inner products of the vectors used are exact.         *)
(* Similarities are in hundredths (60 is 0.60).                            *)
(***************************************************************************)
EXTENDS Integers, Sequences, FiniteSets, TLC

VARIABLES
  memories,       \* self.memories: the entry list
  index,          \* self.index: the vectors of the FAISS index, by slot
  disk_memories,  \* memory_dir/memories.json
  disk_index,     \* memory_dir/faiss_index.bin
  now,            \* datetime.now(), in hours
  faiss_ties,     \* how this build of FAISS orders equal scores
  requests,       \* the calls of get_response that are under way
  last,           \* the call that ran last, with its arguments
  ret             \* what that call returned

vars == <<memories, index, disk_memories, disk_index, now, faiss_ties, requests, last, ret>>

(* -------------------------- bounds ------------------------------------ *)
\* Most entries the store holds in the model (add_memory is not offered beyond it).
MaxMem == 2
\* Last value of the clock, in hours.
MaxTime == 1
\* Largest k offered to search_memories.
MaxK == 3
\* Most entries the chat requests store.
MaxTurns == 10
\* Most files that are uploaded.
MaxUploads == 1

(* -------------------------- program constants ------------------------- *)
\* SentenceTransformer.get_sentence_embedding_dimension() of the model.
embedding_dim == 2
\* get_conversation_context: search_memories(query, k=10, min_similarity=0.2)
ContextK == 10
ContextMinSimilarity == 20
\* get_conversation_context: get_recent_memories(hours=2, ...)
ContextHours == 2
\* timedelta(days=d) in the clock's unit, the hour.
HoursPerDay == 24
\* get_conversation_context(query, max_context_length=2000)
DefaultMaxContextLength == 2000
\* get_response: len(memory_system.memories) % 10 == 0
SaveEvery == 10
\* The score FAISS reports for a missing neighbour (-FLT_MAX); its label is -1.
NegInf == -1000000

\* Python's None (for an embedding: no vector).
None == <<>>

EntryTypes == {"conversation", "file_data", "analysis", "chart"}

\* The JSON value null where an entries file should have the entry type:
\* from_dict (line 45) takes what the file has, and None is not a str.
JsonNull == "<null>"

(* -------------------------- vectors ----------------------------------- *)
Dot(u, v) == u[1] * v[1] + u[2] * v[2]

\* np.linalg.norm, for the vectors of the model (their norms are integers).
Norm(v) == CHOOSE n \in 0..100 : n * n = Dot(v, v)

\* v / np.linalg.norm(v): a unit vector is held in fixed point with scale 5.
Normalize(v) == <<(v[1] * 5) \div Norm(v), (v[2] * 5) \div Norm(v)>>

\* IndexFlatIP's score of two stored vectors, in hundredths (25 is 1.00).
InnerProduct(u, v) == Dot(u, v) * 4

(* -------------------------- the embedding provider -------------------- *)
\* The texts of the model: contents of entries, and queries.
Contents == {"hi", "data"}
Queries == {"hi?", "up"}

\* self.encoder.encode([text])[0]: deterministic, not normalised.
Encode(text) ==
  CASE text = "hi" -> <<6, 8>>
    [] text = "data" -> <<-6, 8>>
    [] text = "hi?" -> <<3, 4>>
    [] text = "up" -> <<0, 5>>
    [] text = "chart?" -> <<-4, 3>>
    [] text = "" -> <<0, 5>>
    [] text = "User: hi\nAssistant: ok" -> <<8, 6>>
    [] text = "File: f.csv\nShape: (1, 1)\nColumns: a\nRows: 1, Columns: 1\nNumeric columns: a\n" -> <<10, 0>>

(* -------------------------- MemoryEntry -------------------------------- *)
\* MemoryEntry.__init__: metadata or {}, timestamp or datetime.now(), no embedding.
MemoryEntry(content, entry_type, metadata, timestamp) ==
  [content |-> content, entry_type |-> entry_type,
   metadata |-> IF metadata = "None" \/ metadata = "{}" THEN "{}" ELSE metadata,
   timestamp |-> timestamp, embedding |-> None]

\* datetime.isoformat(): the text of a timestamp.
IsoFormat(t) == "T" \o ToString(t)

\* datetime.fromisoformat(): the timestamp a text denotes.
FromIsoFormat(s) == CHOOSE t \in 0..(MaxTime + 1) : IsoFormat(t) = s

\* MemoryEntry.to_dict
to_dict(m) ==
  [content |-> m.content, entry_type |-> m.entry_type, metadata |-> m.metadata,
   timestamp |-> IsoFormat(m.timestamp),
   embedding |-> m.embedding]

\* from_dict giving every entry the empty metadata.
from_dict_NoMetadata(data) ==
  LET entry == MemoryEntry(data.content, data.entry_type, "{}",
                           FromIsoFormat(data.timestamp))
  IN IF data.embedding # None
       THEN [entry EXCEPT !.embedding = data.embedding]
       ELSE entry

\* MemoryEntry.from_dict: an embedding that is null (or an empty list) is not set.
from_dict(data) ==
  LET entry == MemoryEntry(data.content, data.entry_type, data.metadata,
                           FromIsoFormat(data.timestamp))
  IN IF data.embedding # None
       THEN [entry EXCEPT !.embedding = data.embedding]
       ELSE entry

(* -------------------------- Python helpers ---------------------------- *)
\* A Python list with the items f[1], ..., f[n], built once.
List(f) == <<>> \o f

Min(a, b) == IF a < b THEN a ELSE b

\* seq[idx] of a Python list: a negative idx counts from the end.
PyItem(seq, idx) == IF idx < 0 THEN seq[Len(seq) + idx + 1] ELSE seq[idx + 1]

\* Python's order on the key tuples (a, b).
KeyGreater(x, y) == x[1] > y[1] \/ (x[1] = y[1] /\ x[2] > y[2])

\* sorted(seq, key=..., reverse=True), keys[i] the key of seq[i]: Python's sort
\* is stable, also when reversed.
SortedDesc(seq, keys) ==
  LET n == Len(seq)
      Before(i, j) == KeyGreater(keys[i], keys[j])
      rank(i) == Cardinality({j \in 1..n : Before(j, i) \/ (~Before(i, j) /\ j < i)})
  IN List([p \in 1..n |-> seq[CHOOSE i \in 1..n : rank(i) = p - 1]])

\* The items of seq at the positions in S, in the order of seq.
SubSeqAt(seq, S) ==
  LET F[i \in 0..Len(seq)] ==
        IF i = 0 THEN <<>>
        ELSE IF i \in S THEN Append(F[i - 1], seq[i]) ELSE F[i - 1]
  IN F[Len(seq)]

\* "\n".join(parts)
RECURSIVE JoinLines(_)
JoinLines(parts) ==
  IF Len(parts) = 0 THEN ""
  ELSE IF Len(parts) = 1 THEN parts[1]
  ELSE parts[1] \o "\n" \o JoinLines(Tail(parts))

\* str.upper() on the entry types; None has no upper().
HasUpper(s) == s # JsonNull

Upper(s) ==
  CASE s = "conversation" -> "CONVERSATION"
    [] s = "file_data" -> "FILE_DATA"
    [] s = "analysis" -> "ANALYSIS"
    [] s = "chart" -> "CHART"

(* -------------------------- faiss.IndexFlatIP -------------------------- *)
\* faiss.IndexFlatIP(d): no vectors.
IndexFlatIP == <<>>

\* index.d: an index made by IndexFlatIP(self.embedding_dim) has that dimension,
\* an index read from a file the dimension of the vectors in it.
IndexDim(idx) == IF Len(idx) = 0 THEN embedding_dim ELSE Len(idx[1])

\* index.add(x): the wrapper asserts that x has the index's dimension.
IndexAddOk(idx, vec) == Len(vec) = IndexDim(idx)

\* np.vstack(embeddings): the arrays must have one length.
VStackOk(embeddings) ==
  \A i, j \in 1..Len(embeddings) : Len(embeddings[i]) = Len(embeddings[j])

\* index.add(x)
IndexAdd(idx, vec) == Append(idx, vec)

\* index.ntotal
ntotal(idx) == Len(idx)

\* index.search(q, k) for k > 0: k (score, label) pairs by descending score,
\* labels 0-based; missing neighbours are (-FLT_MAX, -1).  The order of equal
\* scores is the library's: lowest label first or highest label first.
IndexSearch(idx, q, k, ties) ==
  LET n == Len(idx)
      scores == List([i \in 1..n |-> InnerProduct(idx[i], q)])
      score(i) == scores[i]
      keys == List([i \in 1..n |->
                      <<score(i), IF ties = "highest_first" THEN i ELSE 0>>])
      slots == SortedDesc(List([i \in 1..n |-> i]), keys)
  IN List([p \in 1..k |-> IF p <= n
                            THEN [similarity |-> score(slots[p]), idx |-> slots[p] - 1]
                            ELSE [similarity |-> NegInf, idx |-> -1]])

(* -------------------------- SemanticMemory: queries ------------------- *)
\* A reference to the entry object at position pos of the entry list.
Ref(mems, pos) == [pos |-> pos, memory |-> mems[pos]]

\* KeepHit without the threshold.
KeepHit_NoThreshold(hit, min_similarity, n) ==
  hit.idx < n

\* search_memories, line 116: the hit is returned.
KeepHit(hit, min_similarity, n) ==
  hit.similarity >= min_similarity /\ hit.idx < n

\* SearchK without the k of the caller.
SearchK_All(k, n) == n

\* search_memories, line 111: the k handed to FAISS, min(k, len(self.memories)).
SearchK(k, n) == Min(k, n)

\* search_memories, lines 103-119: the body of the try.  encode_ok: the encoder
\* returned a vector.  The encoder's exception and the assertions of FAISS's
\* wrapper (the query has the index's dimension, k > 0) leave the body.
search_try(mems, idx, ties, query, k, min_similarity, encode_ok) ==
  IF Len(mems) = 0 THEN [raised |-> FALSE, value |-> <<>>]
  ELSE IF ~encode_ok THEN [raised |-> TRUE, value |-> <<>>]
  ELSE
    LET query_embedding == Normalize(Encode(query))
        kk == SearchK(k, Len(mems))
    IN IF Len(query_embedding) # IndexDim(idx) \/ kk <= 0
         THEN [raised |-> TRUE, value |-> <<>>]
       ELSE
         LET found == IndexSearch(idx, query_embedding, kk, ties)
             hits == SubSeqAt(found, {p \in 1..kk :
                                        KeepHit(found[p], min_similarity, Len(mems))})
         IN [raised |-> FALSE,
             value |-> List([p \in 1..Len(hits) |->
                               [pos |-> IF hits[p].idx < 0
                                          THEN Len(mems) + hits[p].idx + 1
                                          ELSE hits[p].idx + 1,
                                memory |-> PyItem(mems, hits[p].idx),
                                similarity |-> hits[p].similarity]])]

\* search_memories without its except clause.
search_memories_NoExcept(mems, idx, ties, query, k, min_similarity, encode_ok) ==
  search_try(mems, idx, ties, query, k, min_similarity, encode_ok)

\* SemanticMemory.search_memories: lines 121-123 turn an exception into [].
search_memories(mems, idx, ties, query, k, min_similarity, encode_ok) ==
  LET r == search_try(mems, idx, ties, query, k, min_similarity, encode_ok)
  IN IF r.raised THEN [raised |-> FALSE, value |-> <<>>] ELSE r

\* The entry_types argument: None, or a list of types.
NoTypes == [given |-> FALSE, types |-> {}]
Types(S) == [given |-> TRUE, types |-> S]

\* bool(entry_types): None and the empty list are both false.
Truthy(entry_types) == entry_types.given /\ entry_types.types # {}

\* SemanticMemory.get_recent_memories
get_recent_memories(mems, t_now, hours, entry_types) ==
  LET cutoff_time == t_now - hours
      all == List([i \in 1..Len(mems) |-> Ref(mems, i)])
      recent == SubSeqAt(all, {i \in 1..Len(mems) : mems[i].timestamp >= cutoff_time})
      typed == IF Truthy(entry_types)
                 THEN SubSeqAt(recent, {i \in 1..Len(recent) :
                                          recent[i].memory.entry_type \in entry_types.types})
                 ELSE recent
      keys == List([i \in 1..Len(typed) |-> <<typed[i].memory.timestamp, 0>>])
  IN SortedDesc(typed, keys)

\* f"[{memory.entry_type.upper()}] {memory.content}"
EntryText(memory) == "[" \o Upper(memory.entry_type) \o "] " \o memory.content

\* UniqueMemories keeping the last occurrence of each content.
UniqueMemories_LastWins(all_memories) ==
  SubSeqAt(all_memories,
           {i \in 1..Len(all_memories) :
              \A j \in (i + 1)..Len(all_memories) :
                 all_memories[j].memory.content # all_memories[i].memory.content})

\* get_conversation_context, lines 151-159: first occurrence of each content.
UniqueMemories(all_memories) ==
  SubSeqAt(all_memories,
           {i \in 1..Len(all_memories) :
              \A j \in 1..(i - 1) :
                 all_memories[j].memory.content # all_memories[i].memory.content})

\* SortUnique by the timestamp alone.
SortUnique_ByTimestamp(unique) ==
  LET keys == List([i \in 1..Len(unique) |-> <<unique[i].memory.timestamp, 0>>])
  IN SortedDesc(unique, keys)

\* SortUnique leaving the candidates as they came.
SortUnique_Unsorted(unique) == unique

\* get_conversation_context, line 162: by (similarity, timestamp), descending.
SortUnique(unique) ==
  LET keys == List([i \in 1..Len(unique) |->
                      <<unique[i].similarity, unique[i].memory.timestamp>>])
  IN SortedDesc(unique, keys)

\* Whether the loop of lines 168-174 accepts the entry text, given the length so far.
Fits(current_length, entry_text, max_context_length) ==
  ~(current_length + Len(entry_text) > max_context_length)

\* ContextParts cutting the first entry that does not fit, to its header.
ContextParts_Truncating(sorted, max_context_length) ==
  LET F[i \in 0..Len(sorted)] ==
        IF i = 0 THEN [parts |-> <<>>, current_length |-> 0, broke |-> FALSE]
        ELSE LET prev == F[i - 1]
                 entry_text == EntryText(sorted[i].memory)
                 cut_text == "[" \o Upper(sorted[i].memory.entry_type) \o "]"
             IN IF prev.broke THEN prev
                ELSE IF ~Fits(prev.current_length, entry_text, max_context_length)
                  THEN [parts |-> Append(prev.parts, cut_text),
                        current_length |-> prev.current_length + Len(cut_text),
                        broke |-> TRUE]
                  ELSE [parts |-> Append(prev.parts, entry_text),
                        current_length |-> prev.current_length + Len(entry_text),
                        broke |-> FALSE]
  IN F[Len(sorted)].parts

\* ContextParts going on to the next entry (continue) where the code breaks.
ContextParts_Skipping(sorted, max_context_length) ==
  LET F[i \in 0..Len(sorted)] ==
        IF i = 0 THEN [parts |-> <<>>, current_length |-> 0]
        ELSE LET prev == F[i - 1]
                 entry_text == EntryText(sorted[i].memory)
             IN IF ~Fits(prev.current_length, entry_text, max_context_length)
                  THEN prev
                  ELSE [parts |-> Append(prev.parts, entry_text),
                        current_length |-> prev.current_length + Len(entry_text)]
  IN F[Len(sorted)].parts

\* get_conversation_context, lines 164-174: the accepted entry texts.
ContextParts(sorted, max_context_length) ==
  LET F[i \in 0..Len(sorted)] ==
        IF i = 0 THEN [parts |-> <<>>, current_length |-> 0, broke |-> FALSE]
        ELSE LET prev == F[i - 1]
                 entry_text == EntryText(sorted[i].memory)
             IN IF prev.broke \/ ~Fits(prev.current_length, entry_text, max_context_length)
                  THEN [prev EXCEPT !.broke = TRUE]
                  ELSE [parts |-> Append(prev.parts, entry_text),
                        current_length |-> prev.current_length + Len(entry_text),
                        broke |-> FALSE]
  IN F[Len(sorted)].parts

\* get_conversation_context, lines 168-169: the loop reaches an entry whose
\* text cannot be made (entry_type.upper() raises) before it breaks.
RenderRaises(sorted, max_context_length) ==
  \E unique \in {sorted} :
    \E i \in 1..Len(unique) :
      /\ ~HasUpper(unique[i].memory.entry_type)
      /\ \A j \in 1..(i - 1) : HasUpper(unique[j].memory.entry_type)
      /\ Len(ContextParts(SubSeq(unique, 1, i - 1), max_context_length)) = i - 1

\* get_conversation_context, lines 145-176: the body of the try, with its
\* local variables at the point it returned or raised; ret is what the call
\* returns then (line 176, or line 180 after an exception).
context_try(mems, idx, ties, t_now, query, max_context_length, encode_ok) ==
  LET found ==
        search_memories(mems, idx, ties, query, ContextK, ContextMinSimilarity,
                        encode_ok)
      relevant_memories == found.value
      recent_memories ==
        get_recent_memories(mems, t_now, ContextHours, Types({"conversation", "file_data"}))
      all_memories ==
        relevant_memories
          \o List([i \in 1..Len(recent_memories) |->
                     [pos |-> recent_memories[i].pos,
                      memory |-> recent_memories[i].memory, similarity |-> 0]])
      unique_memories == SortUnique(UniqueMemories(all_memories))
      context_parts == ContextParts(unique_memories, max_context_length)
  IN IF found.raised
       THEN [raised |-> TRUE, relevant_memories |-> <<>>, recent_memories |-> <<>>,
             unique_memories |-> <<>>, context_parts |-> <<>>, ret |-> ""]
     ELSE IF RenderRaises(unique_memories, max_context_length)
       THEN [raised |-> TRUE, relevant_memories |-> relevant_memories,
             recent_memories |-> recent_memories,
             unique_memories |-> unique_memories, context_parts |-> <<>>, ret |-> ""]
     ELSE [raised |-> FALSE, relevant_memories |-> relevant_memories,
           recent_memories |-> recent_memories,
           unique_memories |-> unique_memories,
           context_parts |-> context_parts,
           ret |-> JoinLines(context_parts)]

\* get_conversation_context without its except clause.
get_conversation_context_NoExcept(mems, idx, ties, t_now, query, max_context_length, encode_ok) ==
  context_try(mems, idx, ties, t_now, query, max_context_length, encode_ok)

\* SemanticMemory.get_conversation_context: lines 178-180 turn an exception
\* into the return of "".
get_conversation_context(mems, idx, ties, t_now, query, max_context_length, encode_ok) ==
  LET r == context_try(mems, idx, ties, t_now, query, max_context_length, encode_ok)
  IN [r EXCEPT !.raised = FALSE]

\* SemanticMemory.get_memory_stats
get_memory_stats(mems, idx) ==
  IF Len(mems) = 0 THEN [total_memories |-> 0]
  ELSE
    LET n == Len(mems)
        used == {mems[i].entry_type : i \in 1..n}
        oldest == CHOOSE i \in 1..n :
                    /\ \A j \in 1..n : mems[i].timestamp <= mems[j].timestamp
                    /\ \A j \in 1..(i - 1) : mems[j].timestamp > mems[i].timestamp
        newest == CHOOSE i \in 1..n :
                    /\ \A j \in 1..n : mems[i].timestamp >= mems[j].timestamp
                    /\ \A j \in 1..(i - 1) : mems[j].timestamp < mems[i].timestamp
    IN [total_memories |-> n,
        entry_types |-> [t \in used |-> Cardinality({i \in 1..n : mems[i].entry_type = t})],
        oldest_memory |-> IsoFormat(mems[oldest].timestamp),
        newest_memory |-> IsoFormat(mems[newest].timestamp),
        index_size |-> ntotal(idx)]

(* -------------------------- SemanticMemory: mutators ------------------ *)
\* add_try appending the entry before the vector is added to the index.
add_try_EntryFirst(mems, idx, content, entry_type, metadata, t_now, encode_ok) ==
  LET memory == MemoryEntry(content, entry_type, metadata, t_now)
  IN IF ~encode_ok
       THEN [raised |-> TRUE, memories |-> mems, index |-> idx]
       ELSE LET embedding == Normalize(Encode(content))
                embedded == [memory EXCEPT !.embedding = embedding]
            IN IF ~IndexAddOk(idx, embedding)
                 THEN [raised |-> TRUE, memories |-> Append(mems, embedded), index |-> idx]
                 ELSE [raised |-> FALSE,
                       memories |-> Append(mems, embedded),
                       index |-> IndexAdd(idx, embedding)]

\* add_memory, lines 80-95: the body of the try, with the store it leaves.
\* encode_ok: the encoder returned a vector.  The encoder's exception leaves the
\* body before anything is changed, and so does a vector of the wrong length.
add_try(mems, idx, content, entry_type, metadata, t_now, encode_ok) ==
  LET memory == MemoryEntry(content, entry_type, metadata, t_now)
  IN IF ~encode_ok
       THEN [raised |-> TRUE, memories |-> mems, index |-> idx]
       ELSE LET embedding == Normalize(Encode(content))
                embedded == [memory EXCEPT !.embedding = embedding]
            IN IF ~IndexAddOk(idx, embedding)
                 THEN [raised |-> TRUE, memories |-> mems, index |-> idx]
                 ELSE [raised |-> FALSE,
                       memories |-> Append(mems, embedded),
                       index |-> IndexAdd(idx, embedding)]

\* SemanticMemory.add_memory: lines 97-98 log the exception and return.
add_memory(mems, idx, content, entry_type, metadata, t_now, encode_ok) ==
  [add_try(mems, idx, content, entry_type, metadata, t_now, encode_ok)
     EXCEPT !.raised = FALSE]

\* The files of memory_dir: absent, readable with their data, or unreadable.
NoFile == [exists |-> FALSE, readable |-> FALSE, data |-> <<>>]
File(data) == [exists |-> TRUE, readable |-> TRUE, data |-> data]
BadFile == [exists |-> TRUE, readable |-> FALSE, data |-> <<>>]

\* save_memories writing an index file with no vectors.
save_memories_EmptyIndex(mems, idx) ==
  [memories_file |-> File(List([i \in 1..Len(mems) |-> to_dict(mems[i])])),
   index_file |-> File(IndexFlatIP)]

\* SemanticMemory.save_memories, when both writes succeed: the two files.
save_memories(mems, idx) ==
  [memories_file |-> File(List([i \in 1..Len(mems) |-> to_dict(mems[i])])),
   index_file |-> File(idx)]

\* load_memories, lines 254-262: the index after re-adding the stored
\* embeddings.  When np.vstack or index.add raises, the index is as it was
\* (the entries are assigned already, line 248).
RebuildFromEmbeddings(idx, mems) ==
  LET embeddings == SubSeqAt(List([i \in 1..Len(mems) |-> mems[i].embedding]),
                             {i \in 1..Len(mems) : mems[i].embedding # None})
  IN IF Len(embeddings) = 0 THEN idx
     ELSE IF ~VStackOk(embeddings) \/ ~IndexAddOk(idx, embeddings[1]) THEN idx
     ELSE idx \o embeddings

\* load_memories never reading the index file: the stored embeddings are added
\* to the index the store has.
load_memories_NoIndexFile(mems, idx, memories_file, index_file) ==
  IF ~memories_file.exists THEN [memories |-> mems, index |-> idx]
  ELSE IF ~memories_file.readable THEN [memories |-> mems, index |-> idx]
  ELSE
    LET memory_data == memories_file.data
        loaded == List([i \in 1..Len(memory_data) |-> from_dict(memory_data[i])])
    IN [memories |-> loaded, index |-> RebuildFromEmbeddings(idx, loaded)]

\* SemanticMemory.load_memories: the store after the call.  An exception leaves
\* what was assigned before it (lines 266-267).
load_memories(mems, idx, memories_file, index_file) ==
  IF ~memories_file.exists THEN [memories |-> mems, index |-> idx]
  ELSE IF ~memories_file.readable THEN [memories |-> mems, index |-> idx]
  ELSE
    LET memory_data == memories_file.data
        loaded == List([i \in 1..Len(memory_data) |-> from_dict(memory_data[i])])
    IN IF index_file.exists /\ Len(loaded) > 0
         THEN IF index_file.readable
                THEN [memories |-> loaded, index |-> index_file.data]
                ELSE [memories |-> loaded, index |-> idx]
         ELSE [memories |-> loaded, index |-> RebuildFromEmbeddings(idx, loaded)]

\* KeepIndices without the entries that are exactly as old as the cutoff.
KeepIndices_Strict(mems, cutoff_date) ==
  {i \in 1..Len(mems) : mems[i].timestamp > cutoff_date}

\* clear_old_memories, lines 277-279: the positions of the entries to keep.
KeepIndices(mems, cutoff_date) ==
  {i \in 1..Len(mems) : mems[i].timestamp >= cutoff_date}

\* NewMemories with the kept entries newest position first.
NewMemories_Reversed(mems, keep_indices) ==
  LET kept == SubSeqAt(mems, keep_indices)
  IN List([i \in 1..Len(kept) |-> kept[Len(kept) + 1 - i]])

\* clear_old_memories, lines 275-280: the kept entries, in the order of the loop.
NewMemories(mems, keep_indices) == SubSeqAt(mems, keep_indices)

\* SemanticMemory.clear_old_memories, lines 271-293: the store before the save.
\* The function has no try: an exception of np.vstack (line 286) leaves the
\* store as it was, one of index.add (line 288) leaves the new, empty index
\* and the old entry list, and both reach the caller.
clear_old_memories(mems, idx, t_now, days) ==
  LET cutoff_date == t_now - days * HoursPerDay
      keep_indices == KeepIndices(mems, cutoff_date)
      new_memories == NewMemories(mems, keep_indices)
      embeddings == SubSeqAt(List([i \in 1..Len(mems) |-> mems[i].embedding]),
                             {i \in keep_indices : mems[i].embedding # None})
      new_index == IF keep_indices # {}
                     THEN IF Len(embeddings) > 0 THEN IndexFlatIP \o embeddings ELSE idx
                     ELSE IndexFlatIP
  IN IF keep_indices # {} /\ Len(embeddings) > 0 /\ ~VStackOk(embeddings)
       THEN [raised |-> TRUE, memories |-> mems, index |-> idx, removed_count |-> 0]
     ELSE IF /\ keep_indices # {} /\ Len(embeddings) > 0
             /\ ~IndexAddOk(IndexFlatIP, embeddings[1])
       THEN [raised |-> TRUE, memories |-> mems, index |-> IndexFlatIP,
             removed_count |-> 0]
     ELSE [raised |-> FALSE, memories |-> new_memories, index |-> new_index,
           removed_count |-> Len(mems) - Len(new_memories)]

\* clear_old_memories_saved without the save of line 298.
clear_old_memories_unsaved(mems, idx, t_now, days, memories_file, index_file) ==
  LET after == clear_old_memories(mems, idx, t_now, days)
  IN [raised |-> after.raised, memories |-> after.memories, index |-> after.index,
      removed_count |-> after.removed_count,
      memories_file |-> memories_file, index_file |-> index_file]

\* SemanticMemory.clear_old_memories, lines 269-298, with the save that ends
\* it: the store and the two files when it returns.
clear_old_memories_saved(mems, idx, t_now, days, memories_file, index_file) ==
  LET after == clear_old_memories(mems, idx, t_now, days)
      files == save_memories(after.memories, after.index)
  IN [raised |-> after.raised, memories |-> after.memories, index |-> after.index,
      removed_count |-> after.removed_count,
      memories_file |-> IF after.raised THEN memories_file ELSE files.memories_file,
      index_file |-> IF after.raised THEN index_file ELSE files.index_file]

\* SemanticMemory.add_conversation_turn
add_conversation_turn(mems, idx, user_message, assistant_message, metadata, t_now, encode_ok) ==
  add_memory(mems, idx, "User: " \o user_message \o "\nAssistant: " \o assistant_message,
             "conversation", metadata, t_now, encode_ok)

\* SemanticMemory.add_file_data: the content is made of the file's name, shape
\* and columns and of the lines that the summary of file_info gives (the
\* argument summary is those lines, "" for a file_info with no summary).
add_file_data(mems, idx, filename, shape, columns, summary, t_now, encode_ok) ==
  add_memory(mems, idx,
             "File: " \o filename \o "\nShape: " \o shape \o "\nColumns: " \o columns \o "\n" \o summary,
             "file_data", "{filename, file_info}", t_now, encode_ok)

(* -------------------------- inputs ------------------------------------ *)
\* The calls of add_memory the model makes: (content, entry_type, metadata).
AddInputs ==
  { [content |-> "hi", entry_type |-> "conversation", metadata |-> "None"],
    [content |-> "data", entry_type |-> "chart", metadata |-> "{chart_type}"] }

\* search_memories(query, k, min_similarity); in one call the encoder fails.
SearchCalls ==
  [query : Queries, k : {0, 1, MaxK}, min_similarity : {20, 90}, encode_ok : {TRUE}]
    \cup {[query |-> "hi?", k |-> MaxK, min_similarity |-> 20, encode_ok |-> FALSE]}

\* get_recent_memories(hours, entry_types)
RecentCalls ==
  [hours : {0, 24},
   entry_types : {NoTypes, Types({}), Types({"conversation", "file_data"})}]

\* get_conversation_context(query, max_context_length); in one call the encoder
\* fails.  The query "chart?" matches the content "data" and not the content "hi".
ContextCalls ==
  [query : Queries, max_context_length : {15, 20, 29, 2000}, encode_ok : {TRUE}]
    \cup {[query |-> "hi?", max_context_length |-> 2000, encode_ok |-> FALSE]}
    \cup [query : {"chart?"}, max_context_length : {15, 2000}, encode_ok : {TRUE}]

\* clear_old_memories(days)
DaysArgs == {0, 1}

\* The chat requests that can be under way at once.
Requests == {"r1", "r2"}

\* The latest user message of a chat request; "" when the request has none.
UserMessages == {"", "hi"}

\* response.choices[0]["message"]["content"] of the completion.
AssistantMessage == "ok"

\* No call of get_response in the slot.
NoRequest == [pc |-> "none", user_message |-> "", memory_context |-> ""]

(* -------------------------- the state machine ------------------------- *)
\* One caller: a call runs to its end, the caller takes what it returned, and
\* the next call starts.  last is the call that has returned, or Idle.
Call(op, args, raised) == [op |-> op, args |-> args, raised |-> raised]
Idle == Call("idle", <<>>, FALSE)

\* SemanticMemory.__init__ in a directory with no files.
Init ==
  /\ memories = <<>>
  /\ index = IndexFlatIP
  /\ disk_memories = NoFile
  /\ disk_index = NoFile
  /\ now = 0
  /\ faiss_ties \in {"lowest_first", "highest_first"}
  /\ requests = [r \in Requests |-> NoRequest]
  /\ last = Idle
  /\ ret = None

\* The caller has what the call returned.
Return ==
  /\ last # Idle
  /\ last' = Idle
  /\ ret' = None
  /\ UNCHANGED <<requests, memories, index, disk_memories, disk_index, now, faiss_ties>>

\* Time passes: datetime.now() grows.
Tick ==
  /\ last = Idle
  /\ now < MaxTime
  /\ now' = now + 1
  /\ UNCHANGED <<requests, memories, index, disk_memories, disk_index, faiss_ties, last, ret>>

AddMemory ==
  /\ last = Idle
  /\ \E in \in AddInputs, encode_ok \in BOOLEAN :
      /\ Len(memories) < MaxMem
      /\ ntotal(index) < MaxMem
      /\ LET after == add_memory(memories, index, in.content, in.entry_type,
                                 in.metadata, now, encode_ok)
         IN /\ memories' = after.memories
            /\ index' = after.index
            /\ last' = Call("add_memory",
                            [content |-> in.content, entry_type |-> in.entry_type,
                             metadata |-> in.metadata, encode_ok |-> encode_ok],
                            after.raised)
      /\ ret' = None
      /\ UNCHANGED <<requests, disk_memories, disk_index, now, faiss_ties>>

SaveMemories ==
  /\ last = Idle
  /\ LET files == save_memories(memories, index)
     IN /\ disk_memories' = files.memories_file
        /\ disk_index' = files.index_file
  /\ last' = Call("save_memories", <<>>, FALSE)
  /\ ret' = None
  /\ UNCHANGED <<requests, memories, index, now, faiss_ties>>

\* load_memories on the store as it is.  (The guard bounds the index, which a
\* load with no index file grows.)
LoadMemories ==
  /\ last = Idle
  /\ LET after == load_memories(memories, index, disk_memories, disk_index)
     IN /\ ntotal(after.index) <= MaxMem
        /\ memories' = after.memories
        /\ index' = after.index
  /\ last' = Call("load_memories", <<>>, FALSE)
  /\ ret' = None
  /\ UNCHANGED <<requests, disk_memories, disk_index, now, faiss_ties>>

\* The process starts again: SemanticMemory.__init__ (lines 70-75).
Restart ==
  /\ last = Idle
  /\ LET after == load_memories(<<>>, IndexFlatIP, disk_memories, disk_index)
     IN /\ memories' = after.memories
        /\ index' = after.index
  /\ last' = Call("__init__", <<>>, FALSE)
  /\ ret' = None
  /\ UNCHANGED <<requests, disk_memories, disk_index, now, faiss_ties>>

\* clear_old_memories, with the save_memories that ends it (line 298).  The
\* caller gets nothing back; ret holds the count the call logs (line 295).
ClearOldMemories ==
  /\ last = Idle
  /\ \E days \in DaysArgs :
      /\ LET after == clear_old_memories_saved(memories, index, now, days,
                                               disk_memories, disk_index)
         IN /\ memories' = after.memories
            /\ index' = after.index
            /\ disk_memories' = after.memories_file
            /\ disk_index' = after.index_file
            /\ ret' = IF after.raised THEN None
                               ELSE [removed_count |-> after.removed_count]
            /\ last' = Call("clear_old_memories", [days |-> days], after.raised)
      /\ UNCHANGED <<requests, now, faiss_ties>>

\* SearchMemories with an order of equal scores that each call chooses.
SearchMemories_TiesPerCall ==
  /\ last = Idle
  /\ \E c \in SearchCalls, ties \in {"lowest_first", "highest_first"} :
      /\ LET r == search_memories(memories, index, ties, c.query, c.k,
                                  c.min_similarity, c.encode_ok)
         IN /\ ret' = r.value
            /\ last' = Call("search_memories", c, r.raised)
      /\ UNCHANGED <<requests, memories, index, disk_memories, disk_index, now, faiss_ties>>

\* search_memories(query, k, min_similarity)
SearchMemories ==
  /\ last = Idle
  /\ \E c \in SearchCalls :
      /\ LET r == search_memories(memories, index, faiss_ties, c.query, c.k,
                                  c.min_similarity, c.encode_ok)
         IN /\ ret' = r.value
            /\ last' = Call("search_memories", c, r.raised)
      /\ UNCHANGED <<requests, memories, index, disk_memories, disk_index, now, faiss_ties>>

\* GetRecentMemories sorting the entry list of the store itself.
GetRecentMemories_SortsInPlace ==
  /\ last = Idle
  /\ \E c \in RecentCalls :
      /\ ret' = get_recent_memories(memories, now, c.hours, c.entry_types)
      /\ last' = Call("get_recent_memories", c, FALSE)
  /\ memories' = SortedDesc(memories, List([i \in 1..Len(memories) |->
                                              <<memories[i].timestamp, 0>>]))
  /\ UNCHANGED <<requests, index, disk_memories, disk_index, now, faiss_ties>>

GetRecentMemories ==
  /\ last = Idle
  /\ \E c \in RecentCalls :
      /\ ret' = get_recent_memories(memories, now, c.hours, c.entry_types)
      /\ last' = Call("get_recent_memories", c, FALSE)
      /\ UNCHANGED <<requests, memories, index, disk_memories, disk_index, now, faiss_ties>>

GetConversationContext ==
  /\ last = Idle
  /\ \E c \in ContextCalls :
      /\ LET r == get_conversation_context(memories, index, faiss_ties, now, c.query,
                                           c.max_context_length, c.encode_ok)
         IN /\ ret' = r
            /\ last' = Call("get_conversation_context", c, r.raised)
      /\ UNCHANGED <<requests, memories, index, disk_memories, disk_index, now, faiss_ties>>

GetMemoryStats ==
  /\ last = Idle
  /\ ret' = get_memory_stats(memories, index)
  /\ last' = Call("get_memory_stats", <<>>, FALSE)
  /\ UNCHANGED <<requests, memories, index, disk_memories, disk_index, now, faiss_ties>>

Next ==
  \/ Return
  \/ Tick
  \/ AddMemory
  \/ SaveMemories
  \/ LoadMemories
  \/ Restart
  \/ ClearOldMemories
  \/ SearchMemories
  \/ GetRecentMemories
  \/ GetConversationContext
  \/ GetMemoryStats

Spec == Init /\ [][Next]_vars

(* -------------------------- failing saves ----------------------------- *)
\* save_memories when a write fails (lines 235-236 log and return): at the
\* entries file, which open(.., 'w') has truncated already; at the index file
\* before any of it is written, after the entries file was written; or in the
\* middle of the index file.
save_memories_fails(mems, idx, memories_file, index_file, stage) ==
  IF stage = "entries"
    THEN [memories_file |-> BadFile, index_file |-> index_file]
    ELSE IF stage = "index"
      THEN [memories_file |-> save_memories(mems, idx).memories_file,
            index_file |-> index_file]
      ELSE [memories_file |-> save_memories(mems, idx).memories_file,
            index_file |-> BadFile]

SaveMemoriesFails ==
  /\ last = Idle
  /\ \E stage \in {"entries", "index", "index_partial"} :
      /\ LET files == save_memories_fails(memories, index, disk_memories, disk_index, stage)
         IN /\ disk_memories' = files.memories_file
            /\ disk_index' = files.index_file
      /\ last' = Call("save_memories", [failed |-> stage], FALSE)
      /\ ret' = None
      /\ UNCHANGED <<requests, memories, index, now, faiss_ties>>

NextFaults == Next \/ SaveMemoriesFails

\* The store with saves that can fail.
SpecFaults == Init /\ [][NextFaults]_vars

(* -------------------------- entries files of other writers ------------- *)
\* Entries files as the format allows them ("embedding": null, which to_dict
\* writes for an entry with no embedding and from_dict reads, lines 38 and
\* 49-50): one entry, with no embedding; and an entry with its embedding
\* followed by a newer one with none.
EntriesFiles(t_now) ==
  LET hi == [MemoryEntry("hi", "conversation", "None", 0)
               EXCEPT !.embedding = Normalize(Encode("hi"))]
      data == MemoryEntry("data", "chart", "{chart_type}", t_now)
  IN { <<to_dict(data)>>, <<to_dict(hi), to_dict(data)>> }

\* memory_dir is given an entries file that this process did not write, and
\* no index file.
PlaceEntriesFile ==
  /\ last = Idle
  /\ \E data \in EntriesFiles(now) :
      /\ disk_memories' = File(data)
      /\ disk_index' = NoFile
  /\ UNCHANGED <<requests, memories, index, now, faiss_ties, last, ret>>

\* The two files as a SemanticMemory with another sentence-transformer model
\* (three dimensions in place of embedding_dim) saved them: one entry.
FilesOfOtherModel ==
  LET old == [MemoryEntry("old", "conversation", "None", 0)
                EXCEPT !.embedding = <<3, 4, 0>>]
  IN save_memories(<<old>>, <<old.embedding>>)

\* memory_dir holds the files of a run with another model.
PlaceFilesOfOtherModel ==
  /\ last = Idle
  /\ disk_memories' = FilesOfOtherModel.memories_file
  /\ disk_index' = FilesOfOtherModel.index_file
  /\ UNCHANGED <<requests, memories, index, now, faiss_ties, last, ret>>

NextFiles == Next \/ PlaceEntriesFile

\* The store in a directory whose entries file can come from another writer.
SpecFiles == Init /\ [][NextFiles]_vars

\* Entries files that json.load and from_dict take as they are (from_dict
\* checks no value, lines 43-50): an entry with no embedding followed by one
\* with its embedding; one entry whose type is null; and one entry whose
\* embedding is the encoder's vector as it came, not divided by its norm.
ForeignEntriesFiles ==
  LET hi == [MemoryEntry("hi", "conversation", "None", 0)
               EXCEPT !.embedding = Normalize(Encode("hi"))]
      data0 == MemoryEntry("data", "chart", "{chart_type}", 0)
      untyped == [MemoryEntry("hi", JsonNull, "None", 0)
                    EXCEPT !.embedding = Normalize(Encode("hi"))]
      raw == [MemoryEntry("hi", "conversation", "None", 0)
                EXCEPT !.embedding = Encode("hi")]
  IN { <<to_dict(data0), to_dict(hi)>>, <<to_dict(untyped)>>, <<to_dict(raw)>> }

\* memory_dir is given one of these entries files, and no index file.
PlaceForeignEntriesFile ==
  /\ last = Idle
  /\ \E data \in ForeignEntriesFiles :
      /\ disk_memories' = File(data)
      /\ disk_index' = NoFile
  /\ UNCHANGED <<requests, memories, index, now, faiss_ties, last, ret>>

NextForeign == Next \/ PlaceForeignEntriesFile \/ PlaceFilesOfOtherModel

\* The store in a directory whose files were written by other programs or by
\* a run with another model.
SpecForeign == Init /\ [][NextForeign]_vars

(* -------------------------- get_response: the plain chat path ---------- *)
\* The endpoints are coroutines of one event loop (main.py, lines 59-247): a
\* request runs until it awaits.  get_response awaits once on the plain chat
\* path, for the completion (line 106), so a request takes two steps, and the
\* steps of the requests under way interleave.

\* The requests that wait for their completion.
Awaiting == {r \in Requests : requests[r].pc = "awaiting"}

\* The number of conversation entries, and of file entries, in the store.
Turns == Cardinality({i \in 1..Len(memories) : memories[i].entry_type = "conversation"})
Uploads == Cardinality({i \in 1..Len(memories) : memories[i].entry_type = "file_data"})

\* get_response, line 120 (MemoryClient.should_save_memories).
should_save_memories_OffByOne(mems) == (Len(mems) + 1) % SaveEvery = 0

should_save_memories(mems) == Len(mems) % SaveEvery = 0

\* get_response, lines 39-106: the user message, the context from memory, and
\* the await of the completion.  (The guard keeps the turns within MaxTurns.)
BeginChat(r) ==
  /\ last = Idle
  /\ requests[r].pc = "none"
  /\ Turns + Cardinality(Awaiting) < MaxTurns
  /\ \E user_message \in UserMessages, encode_ok \in BOOLEAN :
      LET context == get_conversation_context(memories, index, faiss_ties, now,
                                              user_message, DefaultMaxContextLength,
                                              encode_ok)
      IN /\ requests' = [requests EXCEPT ![r] = [pc |-> "awaiting",
                                                 user_message |-> user_message,
                                                 memory_context |-> context.ret]]
         /\ ret' = context
         /\ last' = Call("get_response",
                         [request |-> r, step |-> "await", user_message |-> user_message,
                          encode_ok |-> encode_ok, saved |-> FALSE],
                         FALSE)
  /\ UNCHANGED <<memories, index, disk_memories, disk_index, now, faiss_ties>>

\* FinishChat giving way to the other requests after index.add.
FinishChat_AwaitInAdd(r) ==
  /\ last = Idle
  /\ requests[r].pc = "awaiting"
  /\ requests[r].user_message # ""
  /\ index' = IndexAdd(index, Normalize(Encode("User: " \o requests[r].user_message
                                                 \o "\nAssistant: " \o AssistantMessage)))
  /\ requests' = [requests EXCEPT ![r].pc = "adding"]
  /\ last' = Call("get_response",
                  [request |-> r, step |-> "add", user_message |-> requests[r].user_message,
                   encode_ok |-> TRUE, saved |-> FALSE],
                  FALSE)
  /\ ret' = None
  /\ UNCHANGED <<memories, disk_memories, disk_index, now, faiss_ties>>

\* get_response, lines 106-123: the completion is there; the turn is stored
\* when there is a user message, and then the store is saved when
\* should_save_memories; the response is returned.
FinishChat(r) ==
  /\ last = Idle
  /\ requests[r].pc = "awaiting"
  /\ \E encode_ok \in BOOLEAN :
      LET user_message == requests[r].user_message
          after == IF user_message # ""
                     THEN add_conversation_turn(memories, index, user_message,
                                                AssistantMessage, "{chat}", now, encode_ok)
                     ELSE [raised |-> FALSE, memories |-> memories, index |-> index]
          saved == user_message # "" /\ should_save_memories(after.memories)
          files == IF saved
                     THEN save_memories(after.memories, after.index)
                     ELSE [memories_file |-> disk_memories, index_file |-> disk_index]
      IN /\ memories' = after.memories
         /\ index' = after.index
         /\ disk_memories' = files.memories_file
         /\ disk_index' = files.index_file
         /\ last' = Call("get_response",
                         [request |-> r, step |-> "return", user_message |-> user_message,
                          encode_ok |-> encode_ok, saved |-> saved],
                         FALSE)
  /\ requests' = [requests EXCEPT ![r] = NoRequest]
  /\ ret' = None
  /\ UNCHANGED <<now, faiss_ties>>

\* get_response, line 106: the await ends with an exception (the request was
\* cancelled, or lines 125-127 made the fallback response): nothing is stored.
CompletionFails(r) ==
  /\ last = Idle
  /\ requests[r].pc = "awaiting"
  /\ requests' = [requests EXCEPT ![r] = NoRequest]
  /\ last' = Call("get_response",
                  [request |-> r, step |-> "failed",
                   user_message |-> requests[r].user_message,
                   encode_ok |-> TRUE, saved |-> FALSE],
                  FALSE)
  /\ ret' = None
  /\ UNCHANGED <<memories, index, disk_memories, disk_index, now, faiss_ties>>

NextChat ==
  \/ Return
  \/ Tick
  \/ GetMemoryStats
  \/ \E r \in Requests : BeginChat(r)
  \/ \E r \in Requests : FinishChat(r)
  \/ \E r \in Requests : CompletionFails(r)

\* The store under chat requests and the statistics endpoint.
SpecChat == Init /\ [][NextChat]_vars

(* -------------------------- upload_file -------------------------------- *)
\* main.py, upload_file, lines 126-154: after the await of file.read() the
\* file (here f.csv, one numeric column a and one row) is loaded and
\* add_file_data stores its description; nothing is saved.
\* (The guard keeps the uploads within MaxUploads.)
UploadFile ==
  /\ last = Idle
  /\ Uploads < MaxUploads
  /\ \E encode_ok \in BOOLEAN :
      LET after == add_file_data(memories, index, "f.csv", "(1, 1)", "a",
                                 "Rows: 1, Columns: 1\nNumeric columns: a\n", now, encode_ok)
      IN /\ memories' = after.memories
         /\ index' = after.index
         /\ last' = Call("upload_file", [filename |-> "f.csv", encode_ok |-> encode_ok],
                         FALSE)
  /\ ret' = None
  /\ UNCHANGED <<requests, disk_memories, disk_index, now, faiss_ties>>

NextUpload ==
  \/ Return
  \/ UploadFile
  \/ \E r \in Requests : BeginChat(r)
  \/ \E r \in Requests : FinishChat(r)
  \/ \E r \in Requests : CompletionFails(r)

\* The store under chat requests and uploads, the clock standing.
SpecUpload == Init /\ [][NextUpload]_vars

(* ======================== the claims =================================== *)

\* C1: in every state reached by add_memory, clear_old_memories, save_memories
\* and load_memories the index holds one vector per entry, and the vector in
\* slot i is the embedding of entry i.
C1_IndexAligned ==
  /\ ntotal(index) = Len(memories)
  /\ \A i \in 1..Len(memories) : index[i] = memories[i].embedding

\* C2: the string get_conversation_context(query, max_chars) returns is at most
\* max_chars long, the newlines between the entries counted.
C2_ContextWithinBudget ==
  last.op = "get_conversation_context"
    => Len(ret.ret) <= last.args.max_context_length

\* C3: when the embedding provider fails in add_memory, the call does not fail,
\* the entry is appended with no embedding and the index is left as it was.
C3_EmbeddingFailureKeepsEntry ==
  [][(last'.op = "add_memory" /\ last.op = "idle" /\ ~last'.args.encode_ok)
       => /\ ~last'.raised
          /\ Len(memories') = Len(memories) + 1
          /\ SubSeq(memories', 1, Len(memories)) = memories
          /\ memories'[Len(memories')].content = last'.args.content
          /\ memories'[Len(memories')].embedding = None
          /\ index' = index]_vars

\* C4: after every add_memory the total of get_memory_stats is one larger than
\* before, and the added entry is in get_recent_memories with no type filter.
C4_AddGrowsTotalByOne ==
  [][(last'.op = "add_memory" /\ last.op = "idle")
       => /\ get_memory_stats(memories', index').total_memories
               = get_memory_stats(memories, index).total_memories + 1
          /\ LET recent == get_recent_memories(memories', now', 24, NoTypes)
             IN \E i \in 1..Len(recent) :
                  /\ recent[i].pos = Len(memories')
                  /\ recent[i].memory.content = last'.args.content
                  /\ recent[i].memory.entry_type = last'.args.entry_type]_vars

\* The search the last call made, with another threshold.
SearchAgainWith(min_similarity) ==
  search_memories(memories, index, faiss_ties, last.args.query, last.args.k,
                  min_similarity, last.args.encode_ok).value

Thresholds == {-100, 0, 20, 28, 29, 80, 81, 90, 100, 101}

\* C5: every pair search_memories returns has similarity >= min_similarity, and
\* for the same store, query and k a higher min_similarity never gives more results.
C5_ThresholdFilters ==
  last.op = "search_memories"
    => /\ \A i \in 1..Len(ret) : ret[i].similarity >= last.args.min_similarity
       /\ \A higher \in Thresholds :
            higher >= last.args.min_similarity
              => Len(SearchAgainWith(higher)) <= Len(ret)

\* Two entries pass the threshold of the call and a higher one drops one of them.
C5_Witness ==
  /\ last.op = "search_memories"
  /\ Len(ret) = 2
  /\ \E higher \in Thresholds :
       higher > last.args.min_similarity /\ Len(SearchAgainWith(higher)) = 1

\* C6: search_memories returns at most k results and at most as many as the
\* index has vectors, ordered by non-increasing similarity.
C6_AtMostKSorted ==
  last.op = "search_memories"
    => /\ Len(ret) <= last.args.k
       /\ Len(ret) <= ntotal(index)
       /\ \A i, j \in 1..Len(ret) : i < j => ret[i].similarity >= ret[j].similarity

\* k is larger than the index, and the two vectors of the index come back, the
\* closer one first.
C6_Witness ==
  /\ last.op = "search_memories"
  /\ last.args.k > ntotal(index)
  /\ Len(ret) = 2
  /\ ret[1].similarity > ret[2].similarity

\* Every vector of the index scores below the threshold of the last search.
AllBelowThreshold ==
  \A i \in 1..ntotal(index) :
    InnerProduct(index[i], Normalize(Encode(last.args.query))) < last.args.min_similarity

\* C7: search_memories returns the empty list and does not raise when the store
\* has no entries, when the index has no vectors, and when every candidate is
\* below min_similarity.
C7_EmptyNotError ==
  (/\ last.op = "search_memories"
   /\ \/ Len(memories) = 0
      \/ ntotal(index) = 0
      \/ AllBelowThreshold)
    => ~last.raised /\ ret = <<>>

\* The store has entries, its index has no vectors, and FAISS was searched.
C7_Witness ==
  /\ last.op = "search_memories"
  /\ Len(memories) > 0
  /\ ntotal(index) = 0
  /\ last.args.k > 0
  /\ last.args.encode_ok
  /\ ~last.raised
  /\ ret = <<>>

\* C8: get_recent_memories(hours, entry_types) returns exactly the entries whose
\* timestamp is at or after now minus the window and, when a type set is given
\* (an empty one too), whose type is in the set, by descending timestamp.
C8_RecentExactlyMatching ==
  last.op = "get_recent_memories"
    => LET cutoff == now - last.args.hours
           matching == {i \in 1..Len(memories) :
                          /\ memories[i].timestamp >= cutoff
                          /\ last.args.entry_types.given
                               => memories[i].entry_type \in last.args.entry_types.types}
       IN /\ {ret[i].pos : i \in 1..Len(ret)} = matching
          /\ Len(ret) = Cardinality(matching)
          /\ \A i \in 1..Len(ret) : ret[i].memory = memories[ret[i].pos]
          /\ \A i, j \in 1..Len(ret) :
               i < j => ret[i].memory.timestamp >= ret[j].memory.timestamp

\* The sequences of distinct positions of the entry list.
DistinctPositions ==
  {ps \in UNION {[1..m -> 1..Len(memories)] : m \in 0..Len(memories)} :
     \A i, j \in 1..Len(ps) : i # j => ps[i] # ps[j]}

\* "[TYPE] content", the type in upper case.
Rendering(memory) ==
  "[" \o (CASE memory.entry_type = "conversation" -> "CONVERSATION"
            [] memory.entry_type = "file_data" -> "FILE_DATA"
            [] memory.entry_type = "analysis" -> "ANALYSIS"
            [] memory.entry_type = "chart" -> "CHART")
      \o "] " \o memory.content

\* The renderings of the entries at the positions ps, one per line group.
Rendered(ps) ==
  LET F[i \in 0..Len(ps)] ==
        IF i = 0 THEN ""
        ELSE IF i = 1 THEN Rendering(memories[ps[1]])
        ELSE F[i - 1] \o "\n" \o Rendering(memories[ps[i]])
  IN F[Len(ps)]

\* C9: the returned context is made of the complete renderings "[TYPE] content"
\* of stored entries, joined by newlines: no entry is cut to fit the budget.
C9_WholeEntriesOnly ==
  last.op = "get_conversation_context"
    => \E ps \in DistinctPositions : ret.ret = Rendered(ps)

\* The budget left an entry out, and the context returned is not empty.
C9_Witness ==
  /\ last.op = "get_conversation_context"
  /\ Len(ret.context_parts) >= 1
  /\ Len(ret.context_parts) < Len(ret.unique_memories)
  /\ ret.ret # ""

\* C10: the candidates of the search (A) followed by those of the recency filter
\* (B) are deduplicated by content, first occurrence kept: no content is twice
\* in the context, and an entry of both A and B keeps its score from A, not 0.0.
C10_DedupFirstWins ==
  last.op = "get_conversation_context"
    => LET unique == ret.unique_memories
           A == ret.relevant_memories
           n == Len(ret.context_parts)
       IN /\ \A i, j \in 1..Len(unique) :
               i # j => unique[i].memory.content # unique[j].memory.content
          /\ \A i \in 1..n : ret.context_parts[i] = EntryText(unique[i].memory)
          /\ \A i \in 1..Len(unique) :
               (\E a \in 1..Len(A) : A[a].pos = unique[i].pos)
                 => /\ \E a \in 1..Len(A) : /\ A[a].pos = unique[i].pos
                                            /\ A[a].similarity = unique[i].similarity
                    /\ unique[i].similarity >= ContextMinSimilarity

\* An entry found by the search is also recent, and is in the context once.
C10_Witness ==
  /\ last.op = "get_conversation_context"
  /\ \E a \in 1..Len(ret.relevant_memories), b \in 1..Len(ret.recent_memories) :
       ret.relevant_memories[a].pos = ret.recent_memories[b].pos
  /\ Len(ret.context_parts) >= 1
  /\ Len(ret.unique_memories)
       < Len(ret.relevant_memories) + Len(ret.recent_memories)

\* C11: the entries of the returned context are in descending order of
\* (similarity, timestamp): higher similarity first, and of two entries with
\* the same similarity the more recent one first.
C11_ContextSortedDesc ==
  last.op = "get_conversation_context"
    => LET n == Len(ret.context_parts)
           at(i) == ret.unique_memories[i]
       IN /\ n <= Len(ret.unique_memories)
          /\ \A i \in 1..n : ret.context_parts[i] = Rendering(at(i).memory)
          /\ \A i, j \in 1..n :
               i < j => \/ at(i).similarity > at(j).similarity
                        \/ /\ at(i).similarity = at(j).similarity
                           /\ at(i).memory.timestamp >= at(j).memory.timestamp

\* Two entries of the context have the same similarity: the search found the
\* older one first, and the context has the newer one first.
C11_Witness ==
  /\ last.op = "get_conversation_context"
  /\ Len(ret.context_parts) = 2
  /\ Len(ret.relevant_memories) = 2
  /\ ret.unique_memories[1].similarity = ret.unique_memories[2].similarity
  /\ ret.unique_memories[1].memory.timestamp > ret.unique_memories[2].memory.timestamp
  /\ ret.relevant_memories[1].pos = ret.unique_memories[2].pos

\* The lengths of the first n renderings of the sorted candidates, added up.
AcceptedLength(n) ==
  LET F[i \in 0..n] ==
        IF i = 0 THEN 0
        ELSE F[i - 1] + Len(Rendering(ret.unique_memories[i].memory))
  IN F[n]

\* C12: the entries of the returned context are a prefix of the sorted
\* deduplicated candidates, and the first candidate left out did not fit: no
\* candidate after it is in the context, also when it would fit.
C12_GreedyPrefix ==
  last.op = "get_conversation_context"
    => LET n == Len(ret.context_parts)
           sorted == ret.unique_memories
       IN /\ n <= Len(sorted)
          /\ ret.context_parts = [i \in 1..n |-> Rendering(sorted[i].memory)]
          /\ ret.ret = Rendered([i \in 1..n |-> sorted[i].pos])
          /\ n < Len(sorted)
               => AcceptedLength(n) + Len(Rendering(sorted[n + 1].memory))
                    > last.args.max_context_length

\* The first candidate left out is followed by a shorter one that would fit.
C12_Witness ==
  /\ last.op = "get_conversation_context"
  /\ LET n == Len(ret.context_parts)
         sorted == ret.unique_memories
     IN /\ n + 2 <= Len(sorted)
        /\ \E j \in (n + 2)..Len(sorted) :
             AcceptedLength(n) + Len(Rendering(sorted[j].memory))
               <= last.args.max_context_length

\* The entries of mems that are not older than cutoff, in the order of mems.
NotOlderThan(mems, cutoff) ==
  LET F[i \in 0..Len(mems)] ==
        IF i = 0 THEN <<>>
        ELSE IF mems[i].timestamp < cutoff THEN F[i - 1]
        ELSE F[i - 1] \o <<mems[i]>>
  IN F[Len(mems)]

\* C13: after clear_old_memories(days) no entry is older than now minus days,
\* and every entry that was not older than that is still in the store.
C13_PruneByAge ==
  [][(last'.op = "clear_old_memories" /\ last.op = "idle")
       => LET cutoff == now - last'.args.days * 24
          IN /\ \A i \in 1..Len(memories') : memories'[i].timestamp >= cutoff
             /\ \A i \in 1..Len(memories) :
                  memories[i].timestamp >= cutoff
                    => \E j \in 1..Len(memories') : memories'[j] = memories[i]
             /\ Len(memories') = Len(NotOlderThan(memories, cutoff))]_vars

\* A prune removed an entry and kept one that is exactly as old as the cutoff.
C13_Witness ==
  /\ last.op = "clear_old_memories"
  /\ ret.removed_count > 0
  /\ \E i \in 1..Len(memories) :
       memories[i].timestamp = now - last.args.days * 24

\* C14: after clear_old_memories the index has as many vectors as there are
\* surviving entries with an embedding.
C14_PruneIndexCount ==
  last.op = "clear_old_memories"
    => ntotal(index)
         = Cardinality({i \in 1..Len(memories) : memories[i].embedding # None})

\* C15: add_memory appends at the end of the entry list and leaves the entries
\* before it as they were; clear_old_memories keeps the surviving entries in
\* the order they had.
C15_InsertionOrder ==
  [][/\ (last'.op = "add_memory" /\ last.op = "idle")
        => \/ memories' = memories
           \/ /\ Len(memories') = Len(memories) + 1
              /\ SubSeq(memories', 1, Len(memories)) = memories
              /\ memories'[Len(memories')].content = last'.args.content
              /\ memories'[Len(memories')].timestamp = now
     /\ (last'.op = "clear_old_memories" /\ last.op = "idle")
        => memories' = NotOlderThan(memories, now - last'.args.days * 24)]_vars

\* A prune kept two entries, added at different times, the older one first.
C15_Witness ==
  /\ last.op = "clear_old_memories"
  /\ Len(memories) = 2
  /\ memories[1].content # memories[2].content
  /\ memories[1].timestamp < memories[2].timestamp

\* C16: when clear_old_memories returns, the entries file holds the pruned
\* entry list and the index file the index of the store, and a load made right
\* then, into a new store or into this one, gives the pruned store.
C16_PrunePersisted ==
  last.op = "clear_old_memories"
    => LET fresh == load_memories(<<>>, IndexFlatIP, disk_memories, disk_index)
           again == load_memories(memories, index, disk_memories, disk_index)
       IN /\ disk_memories.exists /\ disk_memories.readable
          /\ Len(disk_memories.data) = Len(memories)
          /\ \A i \in 1..Len(memories) :
               /\ disk_memories.data[i].content = memories[i].content
               /\ disk_memories.data[i].entry_type = memories[i].entry_type
               /\ disk_memories.data[i].timestamp = "T" \o ToString(memories[i].timestamp)
          /\ disk_index.exists /\ disk_index.data = index
          /\ fresh.memories = memories /\ fresh.index = index
          /\ again.memories = memories /\ again.index = index

\* A prune removed an entry and kept another; the files hold the kept one.
C16_Witness ==
  /\ last.op = "clear_old_memories"
  /\ ret.removed_count > 0
  /\ Len(memories) > 0
  /\ Len(disk_memories.data) = Len(memories)

SearchOf(mems, idx, c) ==
  search_memories(mems, idx, faiss_ties, c.query, c.k, c.min_similarity, c.encode_ok)

\* C18: search_memories returns the same entries with the same scores in the
\* same order on the store that was saved and on a store that load_memories
\* filled from that save (a new store, or the saved one itself).
C18_SearchSameAfterReload ==
  last.op = "save_memories"
    => LET fresh == load_memories(<<>>, IndexFlatIP, disk_memories, disk_index)
           again == load_memories(memories, index, disk_memories, disk_index)
       IN \A c \in SearchCalls :
            /\ SearchOf(fresh.memories, fresh.index, c) = SearchOf(memories, index, c)
            /\ SearchOf(again.memories, again.index, c) = SearchOf(memories, index, c)

\* The saved store has two entries, and a search finds both, one ahead.
C18_Witness ==
  /\ last.op = "save_memories"
  /\ \E c \in SearchCalls :
       LET found == SearchOf(memories, index, c).value
       IN /\ Len(found) = 2
          /\ found[1].similarity > found[2].similarity

\* The embeddings of the entries of mems that have one, in entry order.
StoredEmbeddings(mems) ==
  LET F[i \in 0..Len(mems)] ==
        IF i = 0 THEN <<>>
        ELSE IF mems[i].embedding = None THEN F[i - 1]
        ELSE F[i - 1] \o <<mems[i].embedding>>
  IN F[Len(mems)]

\* The last call loaded the entries file.
LoadedEntries ==
  /\ last.op \in {"load_memories", "__init__"}
  /\ disk_memories.exists
  /\ disk_memories.readable

\* C19: when load_memories finds no index file, or one whose vector count is
\* not the number of loaded entries with an embedding, the index it leaves is
\* made of the stored embeddings in entry order; the index file is not used.
C19_StaleIndexRebuilt ==
  (/\ LoadedEntries
   /\ \/ ~disk_index.exists
      \/ Len(disk_index.data) # Len(StoredEmbeddings(memories)))
    => index = StoredEmbeddings(memories)

\* C20: load_memories on an entries file that cannot be parsed does not raise
\* and leaves a store with no entries and no index vectors.
C20_CorruptFileEmptyStore ==
  (/\ last.op \in {"load_memories", "__init__"}
   /\ disk_memories.exists
   /\ ~disk_memories.readable)
    => /\ ~last.raised
       /\ Len(memories) = 0
       /\ ntotal(index) = 0

\* The last call was a load that failed: the entries file could not be parsed,
\* or it could and the index file, which the load then reads, could not.
LoadFailed ==
  /\ last.op \in {"load_memories", "__init__"}
  /\ disk_memories.exists
  /\ \/ ~disk_memories.readable
     \/ /\ disk_memories.readable
        /\ Len(disk_memories.data) > 0
        /\ disk_index.exists
        /\ ~disk_index.readable

\* C21: a load_memories that fails at any step, the read of the index file
\* after the entries were read too, leaves a store with no entries and no
\* index vectors.
C21_FailedLoadEmptyStore ==
  LoadFailed => Len(memories) = 0 /\ ntotal(index) = 0

\* The last call was a save_memories that failed.
SaveFailed(call) ==
  call.op = "save_memories" /\ DOMAIN call.args = {"failed"}

\* C22: a save_memories that fails partway leaves the two files on disk as
\* they were before it, a pair of one snapshot.
C22_FailedSaveKeepsPair ==
  [][(SaveFailed(last') /\ last.op = "idle")
       => disk_memories' = disk_memories /\ disk_index' = disk_index]_vars

\* C23: add_memory with an embedding whose length is not the dimension of the
\* index ends in a failure the caller sees; it does not return normally.
C23_DimensionMismatchSurfaced ==
  [][(/\ last'.op = "add_memory" /\ last.op = "idle"
      /\ last'.args.encode_ok
      /\ Len(Normalize(Encode(last'.args.content))) # IndexDim(index))
       => last'.raised]_vars

\* C24: search_memories never returns an entry that has no embedding, and
\* the entry it returns for an index slot is the entry whose embedding is in
\* that slot, whether or not entries with no embedding are in the store;
\* get_recent_memories returns the entries with no embedding like the others.
C24_NoEmbeddingNotSearched ==
  /\ last.op = "search_memories"
       => \A i \in 1..Len(ret) :
            /\ ret[i].memory.embedding # None
            /\ \E slot \in 1..ntotal(index) :
                 /\ index[slot] = ret[i].memory.embedding
                 /\ ret[i].pos = slot + Cardinality({p \in 1..(ret[i].pos - 1) :
                                                        memories[p].embedding = None})
  /\ last.op = "get_recent_memories"
       => \A p \in 1..Len(memories) :
            (/\ memories[p].embedding = None
             /\ memories[p].timestamp >= now - last.args.hours
             /\ last.args.entry_types.given
                  => memories[p].entry_type \in last.args.entry_types.types)
              => \E i \in 1..Len(ret) : ret[i].pos = p

C27_SaveFullSnapshot ==
  (last.op = "save_memories" /\ ~SaveFailed(last))
    => /\ disk_memories.exists /\ disk_memories.readable
       /\ Len(disk_memories.data) = Len(memories)
       /\ \A i \in 1..Len(memories) :
            /\ disk_memories.data[i].content = memories[i].content
            /\ disk_memories.data[i].entry_type = memories[i].entry_type
            /\ disk_memories.data[i].metadata = memories[i].metadata
            /\ disk_memories.data[i].timestamp = IsoFormat(memories[i].timestamp)
            /\ disk_memories.data[i].embedding = memories[i].embedding
       /\ disk_index.exists /\ disk_index.readable
       /\ disk_index.data = index
       /\ save_memories(memories, index).memories_file = disk_memories
       /\ save_memories(memories, index).index_file = disk_index

\* A store of two entries and one vector was saved.
C27_Witness ==
  /\ last.op = "save_memories" /\ ~SaveFailed(last)
  /\ Len(memories) = 2
  /\ ntotal(index) = 1

\* C28: a call of add_memory either appends one entry to the entry list and
\* one vector, the entry's embedding, to the index, or leaves the entry list
\* and the index as they were; it never changes one of the two alone.
C28_AddAllOrNothing ==
  [][(last'.op = "add_memory" /\ last.op = "idle")
       => \/ memories' = memories /\ index' = index
          \/ /\ Len(memories') = Len(memories) + 1
             /\ SubSeq(memories', 1, Len(memories)) = memories
             /\ ntotal(index') = ntotal(index) + 1
             /\ SubSeq(index', 1, ntotal(index)) = index
             /\ index'[ntotal(index')] = memories'[Len(memories')].embedding]_vars

\* add_memory got its embedding and could not add it to the index the store
\* has: the one entry and the one vector of the store are as they were.
C28_Witness ==
  /\ last.op = "add_memory"
  /\ last.args.encode_ok
  /\ ~IndexAddOk(index, Normalize(Encode(last.args.content)))
  /\ Len(memories) = 1
  /\ ntotal(index) = 1

\* C29: with chat requests interleaving at the await of the completion, no
\* step of a request finds the index and the entry list apart: between any
\* two steps the index has one vector per entry, the vector in a slot is the
\* embedding of the entry at that position, the entries a request's search
\* returned carry the scores of their own vectors, the statistics report as
\* many vectors as entries, and a save wrote as many vectors as entries.
C29_AddNotInterleaved ==
  /\ ntotal(index) = Len(memories)
  /\ \A i \in 1..Len(memories) : index[i] = memories[i].embedding
  /\ (last.op = "get_response" /\ last.args.step = "await")
       => \A i \in 1..Len(ret.relevant_memories) :
            ret.relevant_memories[i].similarity
              = InnerProduct(ret.relevant_memories[i].memory.embedding,
                             Normalize(Encode(last.args.user_message)))
  /\ (last.op = "get_memory_stats" /\ Len(memories) > 0)
       => ret.index_size = ret.total_memories
  /\ (disk_memories.exists /\ disk_index.exists)
       => Len(disk_index.data) = Len(disk_memories.data)

\* A request stored its turn while another request, which began before the
\* turn was stored, waits for its completion.
C29_Witness ==
  /\ last.op = "get_response"
  /\ last.args.step = "return"
  /\ last.args.user_message # "" /\ last.args.encode_ok
  /\ Len(memories) > 0
  /\ \E r \in Awaiting :
       /\ r # last.args.request
       /\ requests[r].memory_context = ""
       /\ requests[r].user_message # ""

\* C30: on the plain chat path, get_response calls save_memories after storing
\* the turn exactly when the entry list then has a multiple of SaveEvery
\* entries; with no user message no turn is stored and there is no save.  A
\* save writes the store as it is after the turn; without one the files stay.
C30_SaveEveryTenth ==
  [][(last'.op = "get_response" /\ last'.args.step = "return" /\ last.op = "idle")
       => /\ last'.args.user_message # ""
               => (last'.args.saved <=> Len(memories') % SaveEvery = 0)
          /\ last'.args.user_message = ""
               => ~last'.args.saved /\ memories' = memories
          /\ last'.args.saved
               => /\ disk_memories' = save_memories(memories', index').memories_file
                  /\ disk_index' = save_memories(memories', index').index_file
          /\ ~last'.args.saved
               => disk_memories' = disk_memories /\ disk_index' = disk_index]_vars

\* The turn that made the entry list SaveEvery entries long was stored, and
\* the store was saved.
C30_Witness ==
  /\ last.op = "get_response"
  /\ last.args.step = "return"
  /\ last.args.saved
  /\ Len(memories) = SaveEvery
  /\ Len(disk_memories.data) = SaveEvery

\* The sum of the counts of a dict from entry types to counts.
RECURSIVE SumCounts(_, _)
SumCounts(counts, types) ==
  IF types = {} THEN 0
  ELSE LET t == CHOOSE x \in types : TRUE
       IN counts[t] + SumCounts(counts, types \ {t})

\* C31: in every store state, the empty store included, get_memory_stats
\* reports a total equal to the number of entries, counts by type that sum to
\* the total, an oldest timestamp not later than the newest, and an index_size
\* equal to the number of vectors in the index.
C31_StatsReported ==
  last.op = "get_memory_stats"
    => /\ ret.total_memories = Len(memories)
       /\ DOMAIN ret = {"total_memories", "entry_types", "oldest_memory",
                        "newest_memory", "index_size"}
       /\ SumCounts(ret.entry_types, DOMAIN ret.entry_types) = ret.total_memories
       /\ FromIsoFormat(ret.oldest_memory) <= FromIsoFormat(ret.newest_memory)
       /\ ret.index_size = ntotal(index)

\* The square of the norm of a vector of any length.
RECURSIVE SquaredNorm(_)
SquaredNorm(v) ==
  IF Len(v) = 0 THEN 0 ELSE v[1] * v[1] + SquaredNorm(Tail(v))

\* The vector has norm 1 (in the fixed point of the model, 5).
IsUnit(v) == SquaredNorm(v) = 25

UnsavedEntries ==
  Len(memories) - (IF disk_memories.exists THEN Len(disk_memories.data) ELSE 0)

\* C33: whatever adds the entries (chat turns, uploads), there are never more
\* than SaveEvery entries that were added since the last save_memories.
C33_UnsavedBounded ==
  UnsavedEntries <= SaveEvery

\* C34: every result of search_memories is a current entry whose own embedding
\* gives the reported score against the query, and no entry is returned twice
\* (so no result comes from an index slot that has no entry of its own).
C34_ResultsAreOwnEntries ==
  last.op = "search_memories"
    => /\ \A i \in 1..Len(ret) :
            /\ ret[i].pos \in 1..Len(memories)
            /\ ret[i].memory = memories[ret[i].pos]
            /\ ret[i].memory.embedding # None
            /\ ret[i].similarity
                 = InnerProduct(ret[i].memory.embedding, Normalize(Encode(last.args.query)))
       /\ \A i, j \in 1..Len(ret) : ret[i].pos = ret[j].pos => i = j

\* C35: load_memories is idempotent: right after a load, a second load from
\* the same files would leave the same entry list and the same index, also
\* when there is no index file and the index is rebuilt from the embeddings.
C35_LoadIdempotent ==
  last.op = "load_memories"
    => load_memories(memories, index, disk_memories, disk_index)
         = [memories |-> memories, index |-> index]

\* C36: in the context of get_conversation_context every entry that the search
\* matched (score >= 0.2) comes before every entry that is there only through
\* the recency filter (score 0.0); the budget cuts the end of that order, so a
\* matched entry is dropped only when every recency-only entry is dropped.
C36_MatchedBeforeRecencyOnly ==
  last.op = "get_conversation_context"
    => \E unique \in {ret.unique_memories} :
         LET A == ret.relevant_memories
             n == Len(ret.context_parts)
             Matched(i) == \E a \in 1..Len(A) : A[a].pos = unique[i].pos
         IN /\ n <= Len(unique)
            /\ \A i \in 1..n : ret.context_parts[i] = EntryText(unique[i].memory)
            /\ \A i \in 1..Len(unique) :
                 IF Matched(i) THEN unique[i].similarity >= ContextMinSimilarity
                 ELSE unique[i].similarity = 0
            /\ \A i, j \in 1..Len(unique) : (Matched(i) /\ ~Matched(j)) => i < j
            /\ (\E i \in (n + 1)..Len(unique) : Matched(i))
                 => \A j \in 1..n : Matched(j)

\* A context of a matched entry and a recency-only entry where the budget has
\* room for the matched entry alone: the recency-only entry is the one dropped.
C36_Witness ==
  /\ last.op = "get_conversation_context"
  /\ Len(ret.unique_memories) = 2
  /\ ret.unique_memories[1].similarity >= ContextMinSimilarity
  /\ ret.unique_memories[2].similarity = 0
  /\ ret.unique_memories[2].memory.timestamp > ret.unique_memories[1].memory.timestamp
  /\ Len(ret.context_parts) = 1
  /\ ret.ret = EntryText(ret.unique_memories[1].memory)

\* C37: within one get_response the context is read before the turn is stored:
\* the step that builds a request's context stores nothing and the context is
\* made of entries that were there before it, and the step that ends a request
\* with a non-empty user message, its completion obtained, appends exactly one
\* conversation entry to the entry list.
C37_ContextThenOneTurn ==
  [][/\ (last'.op = "get_response" /\ last'.args.step = "await")
          => /\ memories' = memories
             /\ index' = index
             /\ requests'[last'.args.request].memory_context = ret'.ret
             /\ \A i \in 1..Len(ret'.unique_memories) :
                  /\ ret'.unique_memories[i].pos \in 1..Len(memories)
                  /\ ret'.unique_memories[i].memory = memories[ret'.unique_memories[i].pos]
     /\ (last'.op = "get_response" /\ last'.args.step = "return"
           /\ last'.args.user_message # "")
          => /\ requests[last'.args.request].pc = "awaiting"
             /\ Len(memories') = Len(memories) + 1
             /\ SubSeq(memories', 1, Len(memories)) = memories
             /\ memories'[Len(memories')].entry_type = "conversation"]_vars

\* The operations that only read the store.
ReadOnlyOps ==
  {"search_memories", "get_recent_memories", "get_conversation_context",
   "get_memory_stats"}

\* C38: search_memories, get_recent_memories, get_conversation_context and
\* get_memory_stats are read-only: a call of one of them leaves the entry list
\* with every field of every entry, the index and both files as they were.
C38_QueriesReadOnly ==
  [][last'.op \in ReadOnlyOps
       => /\ memories' = memories
          /\ index' = index
          /\ disk_memories' = disk_memories
          /\ disk_index' = disk_index]_vars

\* get_recent_memories returned two entries newest first, the reverse of the
\* order of the entry list, on a store that has both files on disk.
C38_Witness ==
  /\ last.op = "get_recent_memories"
  /\ Len(memories) = 2 /\ ntotal(index) = 2
  /\ disk_memories.exists /\ disk_index.exists
  /\ Len(ret) = 2
  /\ ret[1].pos = 2 /\ ret[2].pos = 1
  /\ ret[1].memory = memories[2] /\ ret[2].memory = memories[1]

====
